---- MODULE Spec2Model ----
(***************************************************************************)
(* Model of the polling-and-retrieval pipeline of strava-uploader:         *)
(*   EmailMonitor      (src/unnamed/part_008, the revision that takes an   *)
(*                      injected IEmailService and reads downloadLinks)     *)
(*   BaseEmailService  (src/src/services/emailService.ts, lines 245-330)    *)
(*   EmailScheduler    (src/src/services/scheduler.ts)                      *)
(*   main              (src/src/index.ts)                                   *)
(*   GmailService, OutlookService (src/src/services/gmailService.ts)       *)
(*   handleGmailNotification (src/functions/gmail-listener/src/            *)
(*                      gmail-listener.ts) and the sender-domain match      *)
(* The provider's connect / getMessages / disconnect are calls into vendor *)
(* SDKs: their outcomes are chosen nondeterministically.  Callers of the   *)
(* Monitor are tasks; an async method is split at each await, so that      *)
(* calls of different tasks interleave the way promises do on the event    *)
(* loop.  A synchronous method is one step.                                *)
(* The specifications share the variables: Spec (the Monitor and its       *)
(* callers), SpecDownload (one download call, by its counts), SpecFetch    *)
(* (one download call, invocation by invocation; SpecFetchFair adds that   *)
(* an armed timeout fires when its request stays idle), SpecScheduler (the *)
(* Scheduler over the Monitor: runOnce and periodic mode), SpecContinuous  *)
(* (continuous mode; SpecContinuousFair adds that passes terminate and     *)
(* timers fire), SpecMain (the process: mode, signals, exit status),       *)
(* SpecProvider (one provider object) and SpecListener (one Gmail          *)
(* notification); each leaves the others' variables alone.                 *)
(***************************************************************************)
EXTENDS Integers, Sequences, FiniteSets, TLC

\* ---------------------------------------------------------------- bounds
NumTasks == 2                  \* concurrent callers of the Monitor
MaxMsgs == 2                   \* longest list provider.getMessages returns
MaxHops == 1                   \* redirects followed by one download call
MaxChunks == 1                 \* 'data' events of one response body
NumActs == 2                   \* Scheduler methods and cron callbacks in flight
MaxTriggers == 2               \* cron tasks registered at the same time
MaxLoops == 1                  \* calls of startContinuousMonitoring
MaxConnects == 2               \* calls of connect() on one provider object
MaxQueries == 3                \* backend queries one provider object issues
MaxAddress == 2                \* longest From value of a message
MaxDomain == 2                 \* longest value of TECHNOGYM_DOMAIN
MaxHistory == 2                \* messages one history listing names

Tasks == 1..NumTasks
Acts == 1..NumActs

\* ------------------------------------------------------------- constants
ProcessTimeout == 30000        \* timeout processWorkoutEmail passes
DefaultTimeout == 30000        \* downloadWorkoutFile's default timeout
IntervalMinutes == 5           \* EmailScheduler.intervalMinutes

Undefined == "<undefined>"     \* the JavaScript value undefined
OK == "ok"                     \* a call that returned / a promise fulfilled

NotRunningError == "Email monitor is not running"
MissingUrlError == "URL is required to download workout file"
NetworkError == "ECONNRESET"
ConnectErrors == {"Connection failed", "credentials.json file not found"}
GetMessagesErrors == {"Service error", "Gmail service not initialized"}
DisconnectErrors == {"IMAP end failed"}

HttpError(status) == "Failed to download file: HTTP " \o ToString(status)
\* Mutant: the message does not tell the duration.
TimeoutErrorNoDuration(timeout) == "Download timeout"

\* new Error(`Download of workout file timed out: ${timeout}ms`)
TimeoutError(timeout) ==
  "Download of workout file timed out: " \o ToString(timeout) \o "ms"

\* Statuses a server answers with, and the Location header of a redirect.
Statuses == {200, 301, 302, 404}
Url1 == "https://example.com/workout1.tcx"
Url2 == "https://example.com/workout2.gpx"
Locations == {Undefined, Url2}
Url3 == "https://example.com/files/"

\* ---------------------------------------------------------------- messages
\* EmailMessage: id, from, downloadLinks (subject and date are only logged).
Msg1 == [id |-> "msg-1", from |-> "test@mywellness.com",
         downloadLinks |-> <<Url1, Url2>>]
Msg2 == [id |-> "msg-2", from |-> "other@gmail.com",
         downloadLinks |-> <<Url2>>]
Msg3 == [id |-> "msg-3", from |-> "coach@mywellness.com",
         downloadLinks |-> <<>>]
NoMsg == [id |-> "", from |-> "", downloadLinks |-> <<>>]
Inbox == {Msg1, Msg2, Msg3}

\* The lists provider.getMessages may return: no message twice, any order.
MsgLists ==
  UNION {{s \in [1..n -> Inbox] : \A i, j \in 1..n : i # j => s[i] # s[j]}
         : n \in 0..MaxMsgs}

VARIABLES
  isRunning,   \* EmailMonitor.isRunning
  pc,          \* pc[t]: the await at which task t's call is suspended
  cur,         \* cur[t]: the call task t has in flight, as observed so far
  dl,          \* dl[t]: the downloadWorkoutFile promise task t is awaiting
  last,        \* the call that returned last (of any task), as observed
  fcall,       \* the downloadWorkoutFile call followed hop by hop
  hops,        \* hops[i]: the i-th invocation of that call's redirect chain
  cronJob,     \* EmailScheduler.cronJob: the periodic trigger handle
  triggers,    \* how many cron tasks are scheduled and not stopped
  act,         \* the Scheduler methods and cron callbacks in flight, oldest first
  done,        \* the Scheduler activity that ended in the last step, if any
  timers,      \* the one-shot timers of checkEmails that are armed
  loops,       \* how many times startContinuousMonitoring was called
  proc,        \* the process: main(), its signal handlers and its exit
  prov,        \* the provider object: its client handle and backend queries
  note         \* the Gmail notification the listener function is handling

fetchVars == <<fcall, hops>>
schedVars == <<cronJob, triggers, act, done, timers, loops>>
edgeVars == <<proc, prov, note>>
vars == <<isRunning, pc, cur, dl, last, fetchVars, schedVars, edgeVars>>

\* ------------------------------------------------------------ observation
\* What is observed of a call: the flag on entry (for the methods that read
\* it), the provider calls it made and what the provider answered, what it
\* returned and, for a start() that returned at once, the call that had
\* returned last before it was entered.
\* isRunning changes only in steps in which a call returns, so in every state
\* it is the flag as the call in `last` left it.
NoPred == [op |-> "none", wasRunning |-> FALSE, ok |-> FALSE, nConnect |-> 0]

NoCall == [op |-> "none", wasRunning |-> FALSE,
           nConnect |-> 0, nDisconnect |-> 0, nGet |-> 0,
           dlArgs |-> <<>>, requests |-> 0, timers |-> 0,
           msg |-> NoMsg, given |-> <<>>, ret |-> <<>>,
           provided |-> "none", result |-> "none", pred |-> NoPred]

NoDownload == [st |-> "none", url |-> Undefined, timeout |-> 0,
               filename |-> Undefined, requests |-> 0, timers |-> 0,
               outcome |-> "none"]

\* A promise: pending, resolved with a DownloadResult {filename, data}, or
\* rejected with an error.
Pending == [kind |-> "pending", error |-> "", filename |-> "", data |-> ""]
Rejected(error) == [Pending EXCEPT !.kind = "rejected", !.error = error]
Resolved(filename, data) ==
  [Pending EXCEPT !.kind = "resolved", !.filename = filename, !.data = data]

NoFetch == [via |-> "none", url |-> Undefined, timeout |-> 0,
            filename |-> Undefined, msg |-> NoMsg]

\* this.cronJob: undefined, or the task cron.schedule returned last
NoHandle == Undefined
Task == "task"

\* The process before main() is called: its environment, the entry points of
\* the Scheduler main() called and what the awaited one answered, the
\* signals that have a handler, the calls of Scheduler.stop(), the signal
\* that was delivered and the exit status (-1 while the process runs).
NoEnv == [MODE |-> Undefined, EMAIL_PROVIDER |-> Undefined,
          EMAIL_ADDRESS |-> Undefined, MONITOR_INTERVAL_MINUTES |-> Undefined]
NoProcess == [pc |-> "none", env |-> NoEnv, intervalMinutes |-> 0,
              entries |-> <<>>,
              outcome |-> "none", handlers |-> {}, stops |-> 0,
              signal |-> "none", exit |-> -1]
\* kind: GmailService ("gmail") or OutlookService ("imap"); creds: whether
\* credentials.json / config.auth is there; handle: whether this.gmail /
\* this.imap is set; pc: where connect() is suspended; connects, queries:
\* the calls of connect() and the backend queries of getMessages so far;
\* connected, answer: what the last connect() and the last getMessages
\* answered; ended: whether imap.end() was called.
NoProvider == [kind |-> "none", creds |-> FALSE, handle |-> FALSE,
               pc |-> "idle", connects |-> 0, queries |-> 0,
               connected |-> "none", answer |-> "none", ended |-> FALSE]

\* What is observed of one run of handleGmailNotification: the await it is
\* suspended at, the configured domain, the messages of the listing not yet
\* looked up, the length of messageIds, the From header of the message looked
\* up last and what isFromTechnogym returned for it, the first error that
\* occurred and how the handler's promise settled.
NoNote == [pc |-> "none", domain |-> <<>>, left |-> 0, found |-> 0,
           checked |-> FALSE, from |-> <<>>, matched |-> FALSE,
           failed |-> "none", outcome |-> "pending"]

\* What is observed of a Scheduler method or of a cron callback: whether
\* anything else of the Scheduler ran meanwhile, the list its check returned,
\* the message in process, the Monitor and provider calls it made, the call
\* that failed and the result.
NoFault == [call |-> "none", error |-> ""]

NoAct == [fn |-> "none", at |-> "none", alone |-> FALSE,
          msgs |-> <<>>, i |-> 0, log |-> <<>>, fault |-> NoFault,
          result |-> "none", loop |-> 0, round |-> 0]

Summary(r) == [op |-> r.op, wasRunning |-> r.wasRunning, ok |-> r.result = OK,
               nConnect |-> r.nConnect]

\* A call entered now.
Enter(op) ==
  [NoCall EXCEPT !.op = op, !.result = "pending",
                 !.wasRunning = op \in {"start", "stop", "check"} /\ isRunning]

\* The calls in flight once task t's call, entered now, is suspended as c.
InFlight(t, c) == [cur EXCEPT ![t] = c]

\* Task t's call returns with record r.
Returns(t, r) ==
  /\ last' = r
  /\ cur' = [cur EXCEPT ![t] = NoCall]
  /\ pc' = [pc EXCEPT ![t] = "idle"]

Init ==
  /\ isRunning = FALSE
  /\ pc = [t \in Tasks |-> "idle"]
  /\ cur = [t \in Tasks |-> NoCall]
  /\ dl = [t \in Tasks |-> NoDownload]
  /\ last = NoCall
  /\ fcall = NoFetch
  /\ hops = <<>>
  /\ cronJob = NoHandle
  /\ triggers = 0
  /\ act = <<>>
  /\ done = NoAct
  /\ timers = {}
  /\ loops = 0
  /\ proc = NoProcess
  /\ prov = NoProvider
  /\ note = NoNote

\* ------------------------------------------------- EmailMonitor.start()
\* Mutant: the guard is missing, start() always connects.
AlreadyRunningNever(running) == FALSE

\* if (this.isRunning) { warn; return }
AlreadyRunning(running) == running

\* Mutant: the flag is set whatever connect() answered.
RunningWhateverConnect(outcome, running) == TRUE

\* await connect(); this.isRunning = true -- the assignment follows the await
RunningAfterConnect(outcome, running) ==
  IF outcome = OK THEN TRUE ELSE running

\* catch (error) { log; throw error }
StartFailure(error) == error

MonitorStart(t) ==
  /\ pc[t] = "idle"
  /\ LET r == Enter("start") IN
     IF AlreadyRunning(isRunning)
     THEN /\ last' = [r EXCEPT !.result = OK, !.pred = Summary(last)]
          /\ UNCHANGED <<pc, cur>>
     ELSE /\ cur' = InFlight(t, [r EXCEPT !.nConnect = 1])
          /\ pc' = [pc EXCEPT ![t] = "start:connect"]
          /\ UNCHANGED last
  /\ UNCHANGED <<isRunning, dl, fetchVars, schedVars, edgeVars>>

\* provider.connect() settles and start() resumes after its await.
ConnectSettles(t) ==
  /\ pc[t] = "start:connect"
  /\ \E outcome \in {OK} \cup ConnectErrors :
       LET after == RunningAfterConnect(outcome, isRunning) IN
       /\ isRunning' = after
       /\ Returns(t, [cur[t] EXCEPT
            !.provided = outcome,
            !.result = IF outcome = OK THEN OK ELSE StartFailure(outcome)])
  /\ UNCHANGED <<dl, fetchVars, schedVars, edgeVars>>

\* -------------------------------------------------- EmailMonitor.stop()
\* if (!this.isRunning) { warn; return }
\* this.emailService.disconnect(); this.isRunning = false
\* stop() is synchronous: one step.  disconnect() is a provider call, which
\* returns or throws; a throw leaves stop() before the assignment.
RunningAfterStop(outcome, running) ==
  IF outcome = OK THEN FALSE ELSE running

MonitorStop(t) ==
  /\ pc[t] = "idle"
  /\ LET r == Enter("stop") IN
     IF ~isRunning
     THEN /\ last' = [r EXCEPT !.result = OK]
          /\ UNCHANGED isRunning
     ELSE \E outcome \in {OK} \cup DisconnectErrors :
            LET after == RunningAfterStop(outcome, isRunning) IN
            /\ isRunning' = after
            /\ last' = [r EXCEPT !.nDisconnect = 1, !.provided = outcome,
                                 !.result = outcome]
  /\ UNCHANGED <<pc, cur, dl, fetchVars, schedVars, edgeVars>>

\* ------------------------------------- EmailMonitor.checkForNewEmails()
\* Mutant: the guard is missing, the provider is always asked.
NotRunningNever(running) == FALSE

\* if (!this.isRunning) throw new Error('Email monitor is not running')
NotRunning(running) == ~running

\* Mutant: the Monitor keeps only the messages that carry a download link.
CheckResultFiltered(messages) ==
  SelectSeq(messages, LAMBDA m : Len(m.downloadLinks) > 0)

\* return messages
CheckResult(messages) == messages

\* Mutant: the catch block throws an error of its own.
CheckFailureWrapped(error) == "Error checking for new emails"

\* catch (error) { log; throw error }
CheckFailure(error) == error

MonitorCheck(t) ==
  /\ pc[t] = "idle"
  /\ LET r == Enter("check") IN
     IF NotRunning(isRunning)
     THEN /\ last' = [r EXCEPT !.result = NotRunningError]
          /\ UNCHANGED <<pc, cur>>
     ELSE /\ cur' = InFlight(t, [r EXCEPT !.nGet = 1])
          /\ pc' = [pc EXCEPT ![t] = "check:getMessages"]
          /\ UNCHANGED last
  /\ UNCHANGED <<isRunning, dl, fetchVars, schedVars, edgeVars>>

\* provider.getMessages(filter) fulfils with a list and checkForNewEmails
\* resumes after its await: logs and returns.
GetMessagesFulfils(t) ==
  /\ pc[t] = "check:getMessages"
  /\ \E messages \in MsgLists :
       Returns(t, [cur[t] EXCEPT !.given = messages, !.provided = OK,
                                 !.ret = CheckResult(messages),
                                 !.result = OK])
  /\ UNCHANGED <<isRunning, dl, fetchVars, schedVars, edgeVars>>

\* provider.getMessages(filter) rejects.
GetMessagesRejects(t) ==
  /\ pc[t] = "check:getMessages"
  /\ \E error \in GetMessagesErrors :
       Returns(t, [cur[t] EXCEPT !.provided = error,
                                 !.result = CheckFailure(error)])
  /\ UNCHANGED <<isRunning, dl, fetchVars, schedVars, edgeVars>>

\* ------------------------- BaseEmailService.downloadWorkoutFile(url, ...)
\* Mutant: only the empty string is refused.
MissingUrlEmptyOnly(url) == url = ""

\* if (!url) return reject(new Error('URL is required ...'))
MissingUrl(url) == url \in {"", Undefined}

\* The promise executor: reject at once on a missing URL, else client.get
\* (one request) and request.setTimeout (one timer).
DownloadCall(url, timeout, filename) ==
  IF MissingUrl(url)
  THEN [NoDownload EXCEPT !.st = "settled", !.url = url,
                          !.timeout = timeout, !.filename = filename,
                          !.outcome = MissingUrlError]
  ELSE [NoDownload EXCEPT !.st = "waiting", !.url = url,
                          !.timeout = timeout, !.filename = filename,
                          !.requests = 1, !.timers = 1]

\* ---------------------------- EmailMonitor.processWorkoutEmail(message)
\* message.downloadLinks[0]: undefined when the list is empty
FirstLink(message) ==
  IF Len(message.downloadLinks) > 0 THEN message.downloadLinks[1]
  ELSE Undefined

\* Mutant: the last link is taken instead of the first.
DownloadArgsLastLink(message) ==
  <<IF Len(message.downloadLinks) > 0
    THEN message.downloadLinks[Len(message.downloadLinks)] ELSE Undefined,
    ProcessTimeout, message.id>>

\* this.emailService.downloadWorkoutFile(links[0], 30000, message.id)
DownloadArgs(message) == <<FirstLink(message), ProcessTimeout, message.id>>

\* Mutant: a try/catch around the download logs the error and goes on.
ProcessOutcomeSwallowed(outcome) == OK

\* await ...: a rejection is rethrown (the method has no try/catch), a
\* DownloadResult is dropped and the method returns.
ProcessOutcome(outcome) == outcome

MonitorProcess(t) ==
  /\ pc[t] = "idle"
  /\ \E message \in Inbox :
       LET a == DownloadArgs(message) IN
       /\ cur' = InFlight(t, [Enter("process") EXCEPT
                    !.msg = message, !.dlArgs = <<a>>])
       /\ dl' = [dl EXCEPT ![t] = DownloadCall(a[1], a[2], a[3])]
  /\ pc' = [pc EXCEPT ![t] = "process:download"]
  /\ UNCHANGED <<isRunning, last, fetchVars, schedVars, edgeVars>>

\* A caller other than the Monitor calls provider.downloadWorkoutFile and
\* awaits it.
DirectUrls == {"", Undefined, Url1, Url2}
DirectHints == {Undefined, "custom.tcx"}
DirectTimeouts == {DefaultTimeout, 5000}

ProviderDownload(t) ==
  /\ pc[t] = "idle"
  /\ \E url \in DirectUrls, timeout \in DirectTimeouts,
        filename \in DirectHints :
       /\ cur' = InFlight(t, [Enter("download") EXCEPT
                    !.dlArgs = <<<<url, timeout, filename>>>>])
       /\ dl' = [dl EXCEPT ![t] = DownloadCall(url, timeout, filename)]
  /\ pc' = [pc EXCEPT ![t] = "download:wait"]
  /\ UNCHANGED <<isRunning, last, fetchVars, schedVars, edgeVars>>

\* The awaited download promise is settled with d.outcome: the caller of
\* task t resumes after its await and returns.
Resume(t, d) ==
  /\ Returns(t, [cur[t] EXCEPT
       !.provided = d.outcome,
       !.result = IF pc[t] = "process:download"
                  THEN ProcessOutcome(d.outcome) ELSE d.outcome,
       !.requests = d.requests, !.timers = d.timers])
  /\ dl' = [dl EXCEPT ![t] = NoDownload]
  /\ UNCHANGED <<isRunning, fetchVars, schedVars, edgeVars>>

Awaiting(t) == pc[t] \in {"process:download", "download:wait"}

\* The promise was rejected in the executor: the await resumes on the next
\* microtask.
RejectedAtOnce(t) ==
  /\ Awaiting(t) /\ dl[t].st = "settled"
  /\ Resume(t, dl[t])

\* The response callback of client.get: a redirect with a Location header
\* repeats the call on the target (one more request, one more timer), any
\* other status but 200 rejects, 200 reads the body to its end and resolves.
\* Of a DownloadResult only the fact that the promise resolved is kept; the
\* timer of a hop that was redirected stays armed, so any armed timer can
\* still reject the call.
HttpResponse(t) ==
  /\ Awaiting(t) /\ dl[t].st = "waiting"
  /\ \E status \in Statuses, location \in Locations :
       IF status \in {301, 302} /\ location # Undefined
       THEN /\ dl[t].requests <= MaxHops
            /\ dl' = [dl EXCEPT ![t] =
                 [@ EXCEPT !.url = location, !.requests = @ + 1,
                           !.timers = @ + 1]]
            /\ UNCHANGED <<isRunning, pc, cur, last, fetchVars,
                           schedVars, edgeVars>>
       ELSE IF status # 200
       THEN Resume(t, [dl[t] EXCEPT !.st = "settled",
                                    !.outcome = HttpError(status)])
       ELSE Resume(t, [dl[t] EXCEPT !.st = "settled", !.outcome = OK])

\* request.on('error') / response.on('error'): reject(error)
RequestError(t) ==
  /\ Awaiting(t) /\ dl[t].st = "waiting"
  /\ Resume(t, [dl[t] EXCEPT !.st = "settled", !.outcome = NetworkError])

\* request.setTimeout(timeout, () => { request.destroy(); reject(...) })
TimeoutFires(t) ==
  /\ Awaiting(t) /\ dl[t].st = "waiting" /\ dl[t].timers > 0
  /\ Resume(t, [dl[t] EXCEPT !.st = "settled",
                             !.outcome = TimeoutError(dl[t].timeout)])

\* The network events of the download task t awaits.
Network(t) ==
  \/ RejectedAtOnce(t)
  \/ HttpResponse(t)
  \/ RequestError(t)
  \/ TimeoutFires(t)

\* The Monitor and its callers: every task calls any method at any time.
Next ==
  \E t \in Tasks :
    \/ MonitorStart(t)
    \/ ConnectSettles(t)
    \/ MonitorStop(t)
    \/ MonitorCheck(t)
    \/ GetMessagesFulfils(t)
    \/ GetMessagesRejects(t)
    \/ MonitorProcess(t)
    \/ Network(t)

Spec == Init /\ [][Next]_vars

\* The downloader and one caller at a time: downloadWorkoutFile is called
\* directly or by processWorkoutEmail.
NextDownload ==
  \/ ProviderDownload(1)
  \/ MonitorProcess(1)
  \/ Network(1)

SpecDownload == Init /\ [][NextDownload]_vars

\* --------------- downloadWorkoutFile, hop by hop (emailService.ts 257-329)
\* Every invocation of downloadWorkoutFile (the caller's and the ones the
\* redirect branch makes) is a hop: its own promise, request, response and
\* timer.  hops[1] is the caller's invocation, hops[i+1] the one hops[i]
\* made for its redirect target.

\* url.split('/') for the URLs of the model.
UrlParts(url) ==
  CASE url = Url1 -> <<"https:", "", "example.com", "workout1.tcx">>
    [] url = Url2 -> <<"https:", "", "example.com", "workout2.gpx">>
    [] url = Url3 -> <<"https:", "", "example.com", "files", "">>
    [] OTHER -> <<url>>

\* name.endsWith('.tcx'), for the names the model can produce.
Stems == {"workout", "workout1", "workout2.gpx", "custom", "ride"}
EndsWithTcx(name) == \E stem \in Stems : name = stem \o ".tcx"

\* Content-Disposition headers a server sends (Undefined: no header).
CdHeaders == {Undefined, "attachment", "attachment; filename='ride.tcx'",
              "attachment; filename=lap.fit"}

\* contentDisposition.match(/filename[^;=\n]*=((['"]).*?\2|[^;\n]*)/): the
\* first group, Undefined when the header does not match.
CdMatch(header) ==
  CASE header = "attachment; filename='ride.tcx'" -> "'ride.tcx'"
    [] header = "attachment; filename=lap.fit" -> "lap.fit"
    [] OTHER -> Undefined

\* match[1].replace(/['"]/g, '')
StripQuotes(text) == IF text = "'ride.tcx'" THEN "ride.tcx" ELSE text

\* !finalFilename: undefined and the empty string are falsy
Falsy(text) == text \in {"", Undefined}

\* Mutant: the Content-Disposition header wins over the explicit filename.
ResolveFilenameHeaderFirst(filename, header, url) ==
  LET fromHeader ==
        IF header # Undefined /\ ~Falsy(CdMatch(header))
        THEN StripQuotes(CdMatch(header)) ELSE Undefined
      parts == UrlParts(url)
      segment == IF Falsy(parts[Len(parts)]) THEN "workout.tcx"
                 ELSE parts[Len(parts)]
  IN IF ~Falsy(fromHeader) THEN fromHeader
     ELSE IF ~Falsy(filename) THEN filename
     ELSE IF EndsWithTcx(segment) THEN segment ELSE segment \o ".tcx"

\* The 'end' handler's filename resolution (lines 292-309): the filename
\* argument; else the header's filename; else the URL's last part or
\* 'workout.tcx', and only in this last branch '.tcx' is appended.
ResolveFilename(filename, header, url) ==
  LET fromHeader ==
        IF header # Undefined /\ ~Falsy(CdMatch(header))
        THEN StripQuotes(CdMatch(header)) ELSE Undefined
      parts == UrlParts(url)
      segment == IF Falsy(parts[Len(parts)]) THEN "workout.tcx"
                 ELSE parts[Len(parts)]
  IN IF ~Falsy(filename) THEN filename
     ELSE IF ~Falsy(fromHeader) THEN fromHeader
     ELSE IF EndsWithTcx(segment) THEN segment ELSE segment \o ".tcx"

\* Buffer.concat(chunks)
RECURSIVE Concat(_)
Concat(chunks) ==
  IF chunks = <<>> THEN "" ELSE Head(chunks) \o Concat(Tail(chunks))

Chunk == "<tcx/>"

\* One invocation: the executor of its promise (DownloadCall) either
\* rejects at once or issues the request and arms the timer.
NewHop(url, timeout, filename) ==
  LET d == DownloadCall(url, timeout, filename) IN
  [url |-> url, timeout |-> timeout, filename |-> filename,
   st |-> IF d.requests = 0 THEN "refused" ELSE "sent",
   status |-> 0, header |-> Undefined, chunks |-> <<>>,
   timer |-> IF d.timers = 0 THEN "none" ELSE "armed",
   destroyed |-> FALSE,
   outcome |-> IF d.st = "settled" THEN Rejected(d.outcome) ELSE Pending]

\* resolve / reject of hop k's promise: nothing if it has settled already;
\* else, through .then(resolve).catch(reject), every invocation before it
\* whose promise is still pending settles the same way.
Settle(hs, k, outcome) ==
  IF hs[k].outcome.kind # "pending" THEN hs
  ELSE [i \in DOMAIN hs |->
          IF i <= k /\ hs[i].outcome.kind = "pending"
          THEN [hs[i] EXCEPT !.outcome = outcome] ELSE hs[i]]

FetchHints == {Undefined, "custom.tcx"}
FetchUrls == {Url2, Url3}

\* A caller calls provider.downloadWorkoutFile(url, timeout, filename).
FetchDirect ==
  /\ fcall = NoFetch
  /\ \E url \in FetchUrls, timeout \in DirectTimeouts,
        filename \in FetchHints :
       /\ fcall' = [NoFetch EXCEPT !.via = "direct", !.url = url,
                      !.timeout = timeout, !.filename = filename]
       /\ hops' = <<NewHop(url, timeout, filename)>>
  /\ UNCHANGED <<isRunning, pc, cur, dl, last, schedVars, edgeVars>>

\* processWorkoutEmail(message) makes the call.
FetchProcess ==
  /\ fcall = NoFetch
  /\ \E message \in Inbox :
       LET a == DownloadArgs(message) IN
       /\ fcall' = [via |-> "process", url |-> a[1], timeout |-> a[2],
                    filename |-> a[3], msg |-> message]
       /\ hops' = <<NewHop(a[1], a[2], a[3])>>
  /\ UNCHANGED <<isRunning, pc, cur, dl, last, schedVars, edgeVars>>

FetchFrame ==
  UNCHANGED <<isRunning, pc, cur, dl, last, fcall, schedVars, edgeVars>>

\* Mutant: a redirect without a Location header is taken for a success.
FollowedOrOk(status, location) == status \in {200, 301, 302}

\* statusCode 200, or a redirect that is followed: every other response
\* rejects with the HTTP status error.
Accepted(status, location) ==
  \/ status = 200
  \/ status \in {301, 302} /\ location # Undefined

\* Mutant: the redirect target is fetched with the default arguments.
RedirectHopDefaults(h, location) == NewHop(location, DefaultTimeout, Undefined)

\* this.downloadWorkoutFile(redirectUrl, timeout, filename)
RedirectHop(h, location) == NewHop(location, h.timeout, h.filename)

\* Mutant: the timer only covers the wait for the response.
IdleUntilResponse(h) == h.st = "sent"

\* The exchanges whose socket stays idle until the timer fires: no
\* response yet, a response that is never read (redirect, error status) or
\* a body that has not ended.
Idle(h) == h.st \in {"sent", "redirected", "failed", "body"}

\* The response callback of hop k's request (lines 265-280, 282-287).  A
\* request that was destroyed delivers nothing.
HopResponse(k) ==
  /\ k \in DOMAIN hops
  /\ hops[k].st = "sent" /\ ~hops[k].destroyed
  /\ \E status \in Statuses, location \in Locations \cup {Url3},
        header \in CdHeaders :
       IF status \in {301, 302} /\ location # Undefined
       THEN /\ Len(hops) <= MaxHops
            /\ header = Undefined
            /\ hops' = Append(
                 [hops EXCEPT ![k].st = "redirected", ![k].status = status],
                 RedirectHop(hops[k], location))
       ELSE IF ~Accepted(status, location)
       THEN /\ header = Undefined
            /\ location \in {Undefined, Url2}
            /\ hops' = Settle(
                 [hops EXCEPT ![k].st = "failed", ![k].status = status],
                 k, Rejected(HttpError(status)))
       ELSE /\ location = Undefined
            /\ hops' = [hops EXCEPT ![k].st = "body", ![k].status = status,
                                    ![k].header = header]
  /\ FetchFrame

\* response.on('data'): chunks.push(chunk)
HopData(k) ==
  /\ k \in DOMAIN hops
  /\ hops[k].st = "body" /\ ~hops[k].destroyed
  /\ Len(hops[k].chunks) < MaxChunks
  /\ hops' = [hops EXCEPT ![k].chunks = Append(@, Chunk)]
  /\ FetchFrame

\* response.on('end'): resolve({filename: finalFilename, data})
HopEnd(k) ==
  /\ k \in DOMAIN hops
  /\ hops[k].st = "body" /\ ~hops[k].destroyed
  /\ hops' = Settle([hops EXCEPT ![k].st = "ended"], k,
               Resolved(ResolveFilename(hops[k].filename, hops[k].header,
                                        hops[k].url),
                        Concat(hops[k].chunks)))
  /\ FetchFrame

\* request.on('error') before the response, response.on('error') while the
\* body is read: reject(error)
HopError(k) ==
  /\ k \in DOMAIN hops
  /\ hops[k].st \in {"sent", "body"} /\ ~hops[k].destroyed
  /\ hops' = Settle([hops EXCEPT ![k].st = "errored"], k,
               Rejected(NetworkError))
  /\ FetchFrame

\* The timer of hop k fires: request.destroy(); reject(timeout error).  The
\* code never clears a timer: it is armed for as long as hop k's exchange
\* has not come to its end, also once the response was a redirect or an
\* error status (their bodies are never read) and whatever has become of
\* the promise.
HopTimeout(k) ==
  /\ k \in DOMAIN hops
  /\ hops[k].timer = "armed"
  /\ Idle(hops[k])
  /\ hops' = Settle([hops EXCEPT ![k].timer = "fired",
                                 ![k].destroyed = TRUE], k,
               Rejected(TimeoutError(hops[k].timeout)))
  /\ FetchFrame

\* The caller has its answer and the call is followed no further.
FetchDone ==
  /\ fcall # NoFetch
  /\ hops[1].outcome.kind # "pending"
  /\ fcall' = NoFetch
  /\ hops' = <<>>
  /\ UNCHANGED <<isRunning, pc, cur, dl, last, schedVars, edgeVars>>

NextFetch ==
  \/ FetchDirect
  \/ FetchProcess
  \/ \E k \in 1..(MaxHops + 1) :
       \/ HopResponse(k)
       \/ HopData(k)
       \/ HopEnd(k)
       \/ HopError(k)
       \/ HopTimeout(k)
  \/ FetchDone

SpecFetch == Init /\ [][NextFetch]_vars

\* Every armed timer fires if its exchange stays idle.
SpecFetchFair ==
  SpecFetch /\ \A k \in 1..(MaxHops + 1) : WF_vars(HopTimeout(k))

\* ------------------------------------- EmailScheduler (scheduler.ts 5-104)
\* A Scheduler method or a cron callback in flight is an activity.  A step
\* runs an activity from one await to the next: the Monitor's methods are
\* taken with it, by the operators of the sections above.

\* isRunning(): return this.cronJob !== undefined
\* Mutant: isRunning() always answers true.
SchedulerIsRunningAlways(handle) == TRUE

SchedulerIsRunning(handle) == handle # NoHandle

\* Mutant: runOnce() logs the error and returns.
EntryFailureSwallowed(error) == OK

\* catch (error) { logger.error(...); throw error } of runOnce and of
\* startScheduledMonitoring
EntryFailure(error) == error

\* Mutant: the cron callback lets the error out.
PassFailureRethrown(error) == error

\* catch (error) { logger.error(...) } of the cron callback
PassFailure(error) == OK

\* The lists provider.getMessages answers a pass with: the mailbox's
\* messages in the order the provider lists them, any of them missing.
Mailbox == <<Msg3, Msg1, Msg2>>
PassLists ==
  {s \in MsgLists :
     \A i, j \in DOMAIN s :
       i < j => \E m, n \in DOMAIN Mailbox :
                  m < n /\ Mailbox[m] = s[i] /\ Mailbox[n] = s[j]}

\* What provider.downloadWorkoutFile answers to processWorkoutEmail.
DownloadOutcomes == {OK, HttpError(404), TimeoutError(ProcessTimeout)}

\* The event loop holds at most NumActs suspended activities.
Room == Len(act) < NumActs

\* The method fn is entered; for runOnce() it is observed whether it runs
\* alone.
Begin(fn) ==
  [NoAct EXCEPT !.fn = fn, !.alone = fn = "runOnce" /\ act = <<>>]

Logged(f, calls) == [f EXCEPT !.log = @ \o calls]

\* Activity f ends: normally, or in its catch block with the error of call.
Ends(f) == [f EXCEPT !.at = "done", !.result = OK]

\* Mutant: runOnce() stops the Monitor in a finally block.
FailsThenStops(f, call, error) ==
  [f EXCEPT !.at = "done", !.fault = [call |-> call, error |-> error],
            !.log = IF f.fn = "runOnce" /\ call # "start"
                    THEN @ \o <<"stop", "disconnect">> ELSE @,
            !.result = error]

Fails(f, call, error) ==
  [f EXCEPT !.at = "done", !.fault = [call |-> call, error |-> error],
            !.result = IF f.fn \in {"firing", "checkEmails"}
                       THEN PassFailure(error)
                       ELSE EntryFailure(error)]

\* Something else of the Scheduler runs while activity f is suspended.
Disturbed(f) == [f EXCEPT !.alone = FALSE]

\* The activities in flight without the a-th.
Without(a) == [b \in 1..(Len(act) - 1) |-> act[IF b < a THEN b ELSE b + 1]]

\* this.intervalMinutes * 60 * 1000
TimerDelay(minutes) == minutes * 60 * 1000

\* Mutant: the timer is armed as the last statement of the try block.
RearmsAfterSuccess(g) ==
  g.fn = "checkEmails" /\ g.at = "done" /\ g.fault = NoFault

\* setTimeout(checkEmails, ...) follows the try/catch of checkEmails: a pass
\* that ended, either way, arms a timer.
Rearms(g) == g.fn = "checkEmails" /\ g.at = "done"

\* The timer activity g arms: for the next pass of its loop.  Passes are
\* numbered by their parity within the loop.
Armed(g) ==
  IF Rearms(g)
  THEN {[loop |-> g.loop, round |-> 1 - g.round,
         delay |-> TimerDelay(IntervalMinutes)]}
  ELSE {}

\* An activity is entered and runs to its first await as g, or to its end.
Enters(g) ==
  /\ act' = [b \in DOMAIN act |-> Disturbed(act[b])]
              \o (IF g.at = "done" THEN <<>> ELSE <<g>>)
  /\ done' = IF g.at = "done" THEN g ELSE NoAct
  /\ timers' = timers \cup Armed(g)

\* The a-th activity resumes and runs to its next await as g, or to its end.
Resumes(a, g) ==
  /\ act' = IF g.at = "done" THEN Without(a) ELSE [act EXCEPT ![a] = g]
  /\ done' = IF g.at = "done" THEN g ELSE NoAct
  /\ timers' = timers \cup Armed(g)

\* startContinuousMonitoring() ends as g having called checkEmails(), which
\* ran to its first await as p, or to its end; rest are the other
\* activities.
Spawns(rest, g, p) ==
  /\ act' = rest \o (IF p.at = "done" THEN <<>> ELSE <<p>>)
  /\ done' = g
  /\ timers' = timers \cup Armed(p)

SchedFrame == UNCHANGED <<pc, cur, dl, last, loops, fetchVars, edgeVars>>

\* await this.emailMonitor.checkForNewEmails(), up to its await
EnterCheck(f, running) ==
  IF NotRunning(running)
  THEN Fails(Logged(f, <<"check">>), "check", NotRunningError)
  ELSE [Logged(f, <<"check">>) EXCEPT !.at = "getMessages"]

\* await this.emailMonitor.processWorkoutEmail(f.msgs[k]), up to its await
EnterProcess(f, k) ==
  LET a == DownloadArgs(f.msgs[k])
      d == DownloadCall(a[1], a[2], a[3])
      g == [Logged(f, <<"process:" \o f.msgs[k].id>>) EXCEPT !.i = k]
  IN IF d.st = "settled"
     THEN Fails(g, "process", ProcessOutcome(d.outcome))
     ELSE [g EXCEPT !.at = "download"]

\* Mutant: runOnce() returns without stopping the Monitor.
PassEndNoStop(f, running, outcome) == [f |-> Ends(f), running |-> running]

\* The end of a pass.  runOnce goes on with this.emailMonitor.stop(), whose
\* provider.disconnect() answers with outcome; a cron callback returns.
PassEnd(f, running, outcome) ==
  IF f.fn # "runOnce" THEN [f |-> Ends(f), running |-> running]
  ELSE IF ~running
  THEN [f |-> Ends(Logged(f, <<"stop">>)), running |-> running]
  ELSE [f |-> IF outcome = OK
              THEN Ends(Logged(f, <<"stop", "disconnect">>))
              ELSE Fails(Logged(f, <<"stop", "disconnect">>), "stop",
                         outcome),
        running |-> RunningAfterStop(outcome, running)]

\* for (const message of messages), from message k on
Advance(f, k, running, outcome) ==
  IF k > Len(f.msgs) THEN PassEnd(f, running, outcome)
  ELSE [f |-> EnterProcess(f, k), running |-> running]

\* this.cronJob = cron.schedule(...): one more task is scheduled and the
\* handle is the new task's, whatever it was.
Schedule ==
  /\ cronJob' = Task
  /\ triggers' = triggers + 1

\* checkEmails() is called for pass number round of loop n and runs to its
\* first await, or to its end.
Pass(n, round, running) ==
  EnterCheck([Begin("checkEmails") EXCEPT !.loop = n, !.round = round],
             running)

\* runOnce() is called: await this.emailMonitor.start().  A start() that
\* finds the Monitor running returns at once and the check follows.
RunOnceEnter ==
  /\ Room
  /\ LET f == Logged(Begin("runOnce"), <<"start">>) IN
     Enters(IF AlreadyRunning(isRunning) THEN EnterCheck(f, isRunning)
            ELSE [f EXCEPT !.at = "connect"])
  /\ UNCHANGED <<isRunning, cronJob, triggers>>
  /\ SchedFrame

\* startScheduledMonitoring() is called.
StartScheduledEnter ==
  /\ Room
  /\ triggers
       + Cardinality({a \in DOMAIN act : act[a].fn = "startScheduled"})
       < MaxTriggers
  /\ LET f == Logged(Begin("startScheduled"), <<"start">>) IN
     IF AlreadyRunning(isRunning)
     THEN /\ Enters(Ends(Logged(f, <<"schedule">>)))
          /\ Schedule
     ELSE /\ Enters([f EXCEPT !.at = "connect"])
          /\ UNCHANGED <<cronJob, triggers>>
  /\ UNCHANGED isRunning
  /\ SchedFrame

\* provider.connect() settles: start() resumes, then the method that
\* awaited it.
SchedConnectSettles(a) ==
  /\ a \in DOMAIN act
  /\ act[a].at = "connect"
  /\ \E outcome \in {OK} \cup ConnectErrors :
       LET f == act[a]
           after == RunningAfterConnect(outcome, isRunning)
       IN /\ isRunning' = after
          /\ IF outcome # OK
             THEN /\ Resumes(a, Fails(f, "start", StartFailure(outcome)))
                  /\ UNCHANGED <<cronJob, triggers>>
             ELSE IF f.fn = "startScheduled"
             THEN /\ Resumes(a, Ends(Logged(f, <<"schedule">>)))
                  /\ Schedule
             ELSE IF f.fn = "startContinuous"
             THEN /\ Spawns(Without(a), Ends(Logged(f, <<"checkEmails">>)),
                            Pass(f.loop, 0, after))
                  /\ UNCHANGED <<cronJob, triggers>>
             ELSE /\ Resumes(a, EnterCheck(f, after))
                  /\ UNCHANGED <<cronJob, triggers>>
  /\ SchedFrame

\* A scheduled cron task fires: its callback is called.
CronFires ==
  /\ Room
  /\ triggers > 0
  /\ Enters(EnterCheck(Begin("firing"), isRunning))
  /\ UNCHANGED <<isRunning, cronJob, triggers>>
  /\ SchedFrame

\* The answers of provider.disconnect() when activity f ends its pass after
\* message k: only runOnce's stop() calls it, and only if the Monitor is
\* running.
Disconnects(f, k) ==
  IF f.fn = "runOnce" /\ isRunning /\ k >= Len(f.msgs)
  THEN {OK} \cup DisconnectErrors ELSE {OK}

\* provider.getMessages settles: checkForNewEmails resumes, then the pass.
SchedGetMessagesFulfils(a) ==
  /\ a \in DOMAIN act
  /\ act[a].at = "getMessages"
  /\ \E messages \in PassLists :
       LET f == [act[a] EXCEPT !.msgs = CheckResult(messages)] IN
       \E outcome \in Disconnects(f, 0) :
         LET n == Advance(f, 1, isRunning, outcome)
         IN /\ isRunning' = n.running
            /\ Resumes(a, n.f)
  /\ UNCHANGED <<cronJob, triggers>>
  /\ SchedFrame

SchedGetMessagesRejects(a) ==
  /\ a \in DOMAIN act
  /\ act[a].at = "getMessages"
  /\ \E error \in GetMessagesErrors :
       Resumes(a, Fails(act[a], "check", CheckFailure(error)))
  /\ UNCHANGED <<isRunning, cronJob, triggers>>
  /\ SchedFrame

\* provider.downloadWorkoutFile settles: processWorkoutEmail resumes, then
\* the loop.
SchedDownloadSettles(a) ==
  /\ a \in DOMAIN act
  /\ act[a].at = "download"
  /\ \E answer \in DownloadOutcomes :
       IF ProcessOutcome(answer) # OK
       THEN /\ Resumes(a, Fails(act[a], "process", ProcessOutcome(answer)))
            /\ UNCHANGED isRunning
       ELSE \E outcome \in Disconnects(act[a], act[a].i) :
              LET n == Advance(act[a], act[a].i + 1, isRunning, outcome)
              IN /\ isRunning' = n.running
                 /\ Resumes(a, n.f)
  /\ UNCHANGED <<cronJob, triggers>>
  /\ SchedFrame

\* stop(): synchronous.  if (this.cronJob) { this.cronJob.stop();
\* this.cronJob = undefined }; if (this.emailMonitor.isActive())
\* this.emailMonitor.stop()
SchedulerStop ==
  \E outcome \in (IF isRunning THEN {OK} \cup DisconnectErrors ELSE {OK}) :
    LET f0 == Begin("stop")
        f1 == IF SchedulerIsRunning(cronJob) THEN Logged(f0, <<"cancel">>)
              ELSE f0
        f2 == IF ~isRunning THEN Ends(f1)
              ELSE IF outcome = OK
              THEN Ends(Logged(f1, <<"stop", "disconnect">>))
              ELSE Fails(Logged(f1, <<"stop", "disconnect">>), "stop",
                         outcome)
    IN /\ triggers' = IF SchedulerIsRunning(cronJob) THEN triggers - 1
                      ELSE triggers
       /\ cronJob' = NoHandle
       /\ isRunning' = IF isRunning THEN RunningAfterStop(outcome, isRunning)
                       ELSE isRunning
       /\ done' = f2
       /\ act' = [b \in DOMAIN act |-> Disturbed(act[b])]
       /\ UNCHANGED timers
       /\ SchedFrame

NextScheduler ==
  \/ RunOnceEnter
  \/ StartScheduledEnter
  \/ CronFires
  \/ SchedulerStop
  \/ \E a \in Acts :
       \/ SchedConnectSettles(a)
       \/ SchedGetMessagesFulfils(a)
       \/ SchedGetMessagesRejects(a)
       \/ SchedDownloadSettles(a)

SpecScheduler == Init /\ [][NextScheduler]_vars

\* ------------------------------------------------------- continuous mode
Loops == 1..MaxLoops

\* startContinuousMonitoring() is called: await this.emailMonitor.start();
\* then checkEmails(), not awaited.
StartContinuousEnter ==
  /\ Room
  /\ loops < MaxLoops
  /\ loops' = loops + 1
  /\ LET f == Logged([Begin("startContinuous") EXCEPT !.loop = loops + 1],
                     <<"start">>)
     IN IF AlreadyRunning(isRunning)
        THEN Spawns([b \in DOMAIN act |-> Disturbed(act[b])],
                    Ends(Logged(f, <<"checkEmails">>)),
                    Pass(f.loop, 0, isRunning))
        ELSE Enters([f EXCEPT !.at = "connect"])
  /\ UNCHANGED <<isRunning, cronJob, triggers>>
  /\ UNCHANGED <<pc, cur, dl, last, fetchVars, edgeVars>>

\* Mutant: the timer is periodic (setInterval).
FiredStays(t) == timers

\* The timers that are armed once the one-shot timer t has fired.
Fired(t) == timers \ {t}

\* The timer of loop n fires: checkEmails is called again.
TimerFires(n) ==
  /\ Room
  /\ \E t \in timers :
       /\ t.loop = n
       /\ LET p == Pass(t.loop, t.round, isRunning) IN
            /\ act' = [b \in DOMAIN act |-> Disturbed(act[b])]
                        \o (IF p.at = "done" THEN <<>> ELSE <<p>>)
            /\ done' = IF p.at = "done" THEN p ELSE NoAct
            /\ timers' = Fired(t) \cup Armed(p)
  /\ UNCHANGED <<isRunning, cronJob, triggers>>
  /\ SchedFrame

\* The pass of loop n that is in flight goes one step on.
PassStep(n) ==
  \E a \in Acts :
    /\ a \in DOMAIN act
    /\ act[a].fn = "checkEmails" /\ act[a].loop = n
    /\ \/ SchedGetMessagesFulfils(a)
       \/ SchedGetMessagesRejects(a)
       \/ SchedDownloadSettles(a)

NextContinuous ==
  \/ StartContinuousEnter
  \/ SchedulerStop
  \/ \E a \in Acts : SchedConnectSettles(a)
  \/ \E n \in Loops :
       \/ TimerFires(n)
       \/ PassStep(n)

SpecContinuous == Init /\ [][NextContinuous]_vars

\* Every pass terminates (the provider answers each call of a pass) and an
\* armed timer fires.
SpecContinuousFair ==
  /\ SpecContinuous
  /\ \A n \in Loops : WF_vars(TimerFires(n)) /\ WF_vars(PassStep(n))

\* -------------------------------------------------------------- provider
ProvFrame ==
  UNCHANGED <<isRunning, pc, cur, dl, last, fetchVars, schedVars, proc, note>>

\* new GmailService(config) / new OutlookService(config)
ProviderNew ==
  /\ prov.kind = "none"
  /\ \E kind \in {"gmail", "imap"}, creds \in BOOLEAN :
       prov' = [NoProvider EXCEPT !.kind = kind, !.creds = creds]
  /\ ProvFrame

\* connect() is called.  OutlookService throws without config.auth, else
\* sets this.imap and waits for 'ready' or 'error'; GmailService enters
\* initializeGmail, which throws without credentials.json.
ProviderConnect ==
  /\ prov.kind # "none" /\ prov.pc = "idle"
  /\ prov.connects < MaxConnects
  /\ LET p == [prov EXCEPT !.connects = @ + 1] IN
     prov' =
       IF ~prov.creds
       THEN [p EXCEPT !.connected =
                        IF prov.kind = "imap"
                        THEN "OAuth configuration is required for Outlook"
                        ELSE "credentials.json file not found"]
       ELSE IF prov.kind = "imap"
       THEN [p EXCEPT !.handle = TRUE, !.pc = "connecting",
                      !.connected = "pending"]
       ELSE [p EXCEPT !.pc = "initializing", !.connected = "pending"]
  /\ ProvFrame

\* initializeGmail goes on after authenticate(): this.gmail is set, then
\* getProfile is awaited; or it throws.
GmailInitialized ==
  /\ prov.pc = "initializing"
  /\ \/ prov' = [prov EXCEPT !.handle = TRUE, !.pc = "connecting"]
     \/ prov' = [prov EXCEPT !.pc = "idle", !.connected = "Connection failed"]
  /\ ProvFrame

\* getProfile settles / the IMAP connection emits 'ready' or 'error'.
ProviderConnectSettles ==
  /\ prov.pc = "connecting"
  /\ \E outcome \in {OK, "Connection failed"} :
       prov' = [prov EXCEPT !.pc = "idle", !.connected = outcome]
  /\ ProvFrame

NotInitializedError(kind) ==
  IF kind = "gmail" THEN "Gmail service not initialized. Call connect() first."
  ELSE "IMAP not initialized"

\* Mutant: getMessages does not look at the client handle.
InitializedAlways(p) == TRUE

\* if (!this.gmail) / if (!this.imap)
Initialized(p) == p.handle

\* The backend queries of one getMessages: messages.list and a messages.get
\* for the message listed (maxResults: 1); openBox and then search.  A query
\* that fails is the last one.
BackendQueries(kind, outcome) ==
  IF kind = "imap" /\ outcome = OK THEN {2} ELSE {1, 2}

\* getMessages(filter), to its end.
ProviderGetMessages ==
  /\ prov.kind # "none"
  /\ IF ~Initialized(prov)
     THEN prov' = [prov EXCEPT !.answer = NotInitializedError(prov.kind)]
     ELSE \E outcome \in {OK, "Service error"} :
            \E n \in BackendQueries(prov.kind, outcome) :
              /\ prov.queries + n <= MaxQueries
              /\ prov' = [prov EXCEPT !.answer = outcome, !.queries = @ + n]
  /\ ProvFrame

\* disconnect(): OutlookService ends the connection if it has one and keeps
\* this.imap; GmailService inherits the empty default.
ProviderDisconnect ==
  /\ prov.kind # "none"
  /\ prov' = [prov EXCEPT !.ended = @ \/ (prov.kind = "imap" /\ prov.handle)]
  /\ ProvFrame

NextProvider ==
  \/ ProviderNew
  \/ ProviderConnect
  \/ GmailInitialized
  \/ ProviderConnectSettles
  \/ ProviderGetMessages
  \/ ProviderDisconnect

SpecProvider == Init /\ [][NextProvider]_vars

\* ------------------------------------------------------------------ main
\* The environments main() is started in.
Envs ==
  [MODE : {Undefined, "", "scheduled", "continuous", "once", "weekly"},
   EMAIL_PROVIDER : {Undefined, "gmail", "outlook"},
   EMAIL_ADDRESS : {Undefined, "me@example.com"},
   MONITOR_INTERVAL_MINUTES : {Undefined, "10"}]

\* parseInt(process.env.MONITOR_INTERVAL_MINUTES || '5', 10)
Interval(env) ==
  LET text == IF Falsy(env.MONITOR_INTERVAL_MINUTES) THEN "5"
              ELSE env.MONITOR_INTERVAL_MINUTES
  IN CHOOSE n \in 0..60 : ToString(n) = text

Signals == {"SIGINT", "SIGTERM"}

\* The exit status of a process that a signal without handler terminated.
Killed(signal) == 128 + (IF signal = "SIGINT" THEN 2 ELSE 15)

\* Mutant: the mode is process.env.MODE as it is.
ModeNoDefault(env) == env.MODE

\* const mode = process.env.MODE || 'scheduled'
Mode(env) == IF Falsy(env.MODE) THEN "scheduled" ELSE env.MODE

\* switch (mode): the entry point of the Scheduler each case calls
EntryPoint(mode) ==
  CASE mode = "scheduled" -> "startScheduledMonitoring"
    [] mode = "continuous" -> "startContinuousMonitoring"
    [] mode = "once" -> "runOnce"
    [] OTHER -> "none"

\* What the awaited entry point answers: runOnce rejects with what its
\* start, check or process rejected with, the two others with what start
\* rejected with.
EntryOutcomes(entry) ==
  {OK} \cup ConnectErrors
       \cup (IF entry = "runOnce"
             THEN GetMessagesErrors \cup {HttpError(404)} ELSE {})

\* process.exit(status): the process ends there.
Exits(p, status) == [p EXCEPT !.pc = "exited", !.exit = status]

\* main() is called and runs to its await, or to a process.exit.
MainBegins ==
  /\ proc.pc = "none"
  /\ \E env \in Envs :
       LET p == [proc EXCEPT !.env = env]
           entry == EntryPoint(Mode(env))
       IN proc' =
            IF Falsy(env.EMAIL_ADDRESS) THEN Exits(p, 1)
            ELSE IF env.EMAIL_PROVIDER # "gmail"
            THEN Exits([p EXCEPT !.intervalMinutes = Interval(env)], 1)
            ELSE IF entry = "none"
            THEN Exits([p EXCEPT !.intervalMinutes = Interval(env)], 1)
            ELSE [p EXCEPT !.pc = "awaiting", !.entries = <<entry>>,
                           !.intervalMinutes = Interval(env),
                           !.outcome = "pending"]
  /\ UNCHANGED <<isRunning, pc, cur, dl, last, fetchVars, schedVars, prov,
                  note>>

\* The awaited entry point settles: main() resumes.  After runOnce it
\* exits; after the two others it registers the signal handlers and
\* returns; in its catch block it exits.
EntrySettles ==
  /\ proc.pc = "awaiting"
  /\ \E outcome \in EntryOutcomes(proc.entries[1]) :
       LET p == [proc EXCEPT !.outcome = outcome] IN
       proc' = IF outcome # OK THEN Exits(p, 1)
               ELSE IF proc.entries[1] = "runOnce" THEN Exits(p, 0)
               ELSE [p EXCEPT !.pc = "serving", !.handlers = Signals]
  /\ UNCHANGED <<isRunning, pc, cur, dl, last, fetchVars, schedVars, prov,
                  note>>

\* A signal is delivered to the running process.  Its handler calls
\* scheduler.stop() and process.exit(0); without a handler the signal
\* terminates the process.
SignalArrives ==
  /\ proc.pc \in {"awaiting", "serving"}
  /\ \E signal \in Signals :
       LET p == [proc EXCEPT !.signal = signal] IN
       proc' = IF signal \in proc.handlers
               THEN Exits([p EXCEPT !.stops = @ + 1], 0)
               ELSE Exits(p, Killed(signal))
  /\ UNCHANGED <<isRunning, pc, cur, dl, last, fetchVars, schedVars, prov,
                  note>>

NextMain ==
  \/ MainBegins
  \/ EntrySettles
  \/ SignalArrives

SpecMain == Init /\ [][NextMain]_vars

\* -------------------------------------------------------- gmail-listener
\* Text is a sequence of characters; the alphabet has a letter in both cases
\* and a character without case.
Chars == {"m", "M", "@"}
Strings(n) == UNION {[1..k -> Chars] : k \in 0..n}

\* String.prototype.toLowerCase
LowerChar(c) == IF c = "M" THEN "m" ELSE c
ToLowerCase(s) == [i \in 1..Len(s) |-> LowerChar(s[i])]

\* String.prototype.includes
Includes(s, d) ==
  \E i \in 0..(Len(s) - Len(d)) : SubSeq(s, i + 1, i + Len(d)) = d

\* process.env.TECHNOGYM_DOMAIN || 'mywellness.com': unset and empty give the
\* default, anything else is taken as it is written.
DefaultDomain == <<"m">>
TechnogymDomain(env) == IF env = <<>> THEN DefaultDomain ELSE env

\* EmailMonitor.isTechnogymEmail:
\*   fromAddress.toLowerCase().includes(this.technogymDomain)
IsTechnogymEmail(fromAddress, technogymDomain) ==
  Includes(ToLowerCase(fromAddress), technogymDomain)

\* headers.find(h => h.name.toLowerCase() === 'from'): absent, or its value
FromHeaders ==
  {[present |-> FALSE, value |-> <<>>]}
    \cup {[present |-> TRUE, value |-> v] : v \in Strings(MaxAddress)}

\* isFromTechnogym, once messages.get has answered:
\*   sender = fromHeader?.value?.toLowerCase() || ''
\*   return sender.includes(emailConfig.domain)
IsFromTechnogym(fromHeader, domain) ==
  LET sender == IF fromHeader.present THEN ToLowerCase(fromHeader.value)
                ELSE <<>>
  IN Includes(sender, domain)

ListenerFrame ==
  UNCHANGED <<isRunning, pc, cur, dl, last, fetchVars, schedVars, proc, prov>>

\* handleGmailNotification up to the first request: decode and JSON.parse the
\* Pub/Sub payload, then findWorkoutEmails up to gmail.users.history.list.
\* A payload that does not parse, and a configuration that cannot be read
\* (authenticateGmail and initializeEmailConfig run outside findWorkoutEmails'
\* try), reach the handler's catch, which rethrows.
HandleGmailNotification ==
  /\ note.pc = "none"
  /\ \E payload \in {"json", "malformed"}, credentials \in BOOLEAN,
        env \in Strings(MaxDomain) :
       LET n == [note EXCEPT !.domain = TechnogymDomain(env)]
       IN note' =
            IF payload = "malformed"
              THEN [n EXCEPT !.pc = "done", !.failed = "payload",
                             !.outcome = "rejected"]
            ELSE IF ~credentials
              THEN [n EXCEPT !.pc = "done", !.failed = "config",
                             !.outcome = "rejected"]
            ELSE [n EXCEPT !.pc = "history"]
  /\ ListenerFrame

\* gmail.users.history.list settles.  A rejection is caught inside
\* findWorkoutEmails, which returns []: the handler logs 'Processed 0 workout
\* emails' and returns.  An answer starts the lookup of its first message, or
\* ends the handler when it names none.
HistorySettles ==
  /\ note.pc = "history"
  /\ \/ note' = [note EXCEPT !.pc = "done", !.failed = "history",
                             !.outcome = "resolved"]
     \/ \E n \in 0..MaxHistory :
          note' = IF n = 0
                    THEN [note EXCEPT !.pc = "done", !.outcome = "resolved"]
                    ELSE [note EXCEPT !.pc = "message", !.left = n]
  /\ ListenerFrame

\* gmail.users.messages.get of the message in turn settles.  A rejection is
\* caught inside isFromTechnogym, which returns false; an answer is matched
\* against the domain and a match is pushed on messageIds.  After the last
\* message the handler logs the count and returns.
MessageSettles ==
  /\ note.pc = "message"
  /\ \E ok \in BOOLEAN, fromHeader \in FromHeaders :
       LET result == ok /\ IsFromTechnogym(fromHeader, note.domain)
           n == [note EXCEPT
                   !.left = @ - 1,
                   !.found = IF result THEN @ + 1 ELSE @,
                   !.checked = ok,
                   !.from = IF ok THEN fromHeader.value ELSE <<>>,
                   !.matched = result,
                   !.failed = IF ~ok /\ @ = "none" THEN "message" ELSE @]
       IN /\ ~ok => ~fromHeader.present
          /\ note' = IF n.left = 0
                       THEN [n EXCEPT !.pc = "done", !.outcome = "resolved"]
                       ELSE n
  /\ ListenerFrame

NextListener ==
  \/ HandleGmailNotification
  \/ HistorySettles
  \/ MessageSettles

SpecListener == Init /\ [][NextListener]_vars

\* ================================================================ claims

\* C1: starting from Stopped, two start() calls made one after the other (the
\* second entered when the first has fulfilled) call provider.connect()
\* exactly once: the second returns at once without calling the provider and
\* the Monitor stays Running.
C1_TwoStartsConnectOnce ==
  [][(/\ last.op = "start" /\ ~last.wasRunning /\ last.result = OK
      /\ \/ \E t \in Tasks : pc[t] = "idle" /\ pc'[t] = "start:connect"
         \/ pc' = pc /\ last' # last /\ last'.op = "start")
     => (/\ pc' = pc /\ cur' = cur
         /\ last'.op = "start" /\ last'.result = OK
         /\ last'.nConnect = 0 /\ last.nConnect + last'.nConnect = 1
         /\ isRunning /\ isRunning')]_vars

C1_Witness ==
  /\ last.op = "start" /\ last.wasRunning /\ last.result = OK
  /\ last.nConnect = 0 /\ isRunning
  /\ last.pred = [op |-> "start", wasRunning |-> FALSE, ok |-> TRUE,
                  nConnect |-> 1]

C3_CheckWhileStoppedRejects ==
  /\ (last.op = "check" /\ ~last.wasRunning)
       => /\ last.result = NotRunningError
          /\ last.nGet = 0 /\ last.provided = "none"
  /\ \A t \in Tasks :
       (cur[t].op = "check" \/ pc[t] = "check:getMessages")
         => cur[t].wasRunning /\ cur[t].nGet = 1

C3_Witness ==
  /\ last.op = "check" /\ ~last.wasRunning /\ ~isRunning
  /\ last.result = NotRunningError /\ last.nGet = 0

\* C4: stop() called while Running calls provider.disconnect() exactly once
\* and leaves the Monitor Stopped; called while Stopped it does not call
\* provider.disconnect() and the Monitor stays Stopped.
C4_StopDisconnectsOnceAndStops ==
  last.op = "stop"
    => /\ last.nDisconnect = (IF last.wasRunning THEN 1 ELSE 0)
       /\ ~isRunning

\* C5: stop() never throws, whatever the provider does: even when
\* provider.disconnect() raises an error, stop() returns normally and the
\* Monitor ends Stopped.
C5_StopNeverThrows ==
  last.op = "stop" => (last.result = OK /\ ~isRunning)

C7_CheckFailurePropagates ==
  [][\A t \in Tasks :
       (/\ pc[t] = "check:getMessages" /\ pc'[t] = "idle"
        /\ last'.provided # OK)
       => /\ last'.op = "check" /\ last'.wasRunning
          /\ last'.provided \in GetMessagesErrors
          /\ last'.result = last'.provided
          /\ last'.nGet = 1 /\ last'.nDisconnect = 0
          /\ isRunning' = isRunning]_vars

C7_Witness ==
  /\ last.op = "check" /\ last.wasRunning /\ isRunning
  /\ last.provided = "Service error" /\ last.result = "Service error"
  /\ last.nGet = 1 /\ last.nDisconnect = 0

\* C8: for every message, processWorkoutEmail(message) calls
\* provider.downloadWorkoutFile exactly once, with the arguments
\* (message.downloadLinks[0], 30000, message.id), however many download
\* links the message has.
C8_ProcessDownloadsFirstLinkOnce ==
  \A r \in {last} \cup {cur[t] : t \in Tasks} :
    r.op = "process"
      => r.dlArgs =
           << <<IF r.msg.downloadLinks = <<>> THEN Undefined
                ELSE Head(r.msg.downloadLinks),
                30000, r.msg.id>> >>

C8_Witness ==
  /\ last.op = "process" /\ last.msg = Msg1 /\ last.result = OK
  /\ last.dlArgs = << <<Url1, 30000, "msg-1">> >>

C10_MissingUrlRejectsWithoutRequest ==
  /\ (/\ last.op \in {"process", "download"}
      /\ last.dlArgs[1][1] \in {"", Undefined})
       => /\ last.provided = MissingUrlError /\ last.result = MissingUrlError
          /\ last.requests = 0 /\ last.timers = 0
  /\ \A t \in Tasks :
       (/\ cur[t].op \in {"process", "download"}
        /\ cur[t].dlArgs[1][1] \in {"", Undefined})
         => /\ dl[t].st = "settled" /\ dl[t].outcome = MissingUrlError
            /\ dl[t].requests = 0 /\ dl[t].timers = 0

C10_Witness ==
  /\ last.op = "process" /\ last.msg = Msg3
  /\ last.dlArgs = << <<Undefined, 30000, "msg-3">> >>
  /\ last.result = MissingUrlError /\ last.requests = 0 /\ last.timers = 0

\* C11: redirect transparency.  For a chain of redirects without a cycle,
\* once the caller's promise and the promise of the invocation on the final
\* redirect target have both settled, they have settled alike: the same
\* filename and data, or the same error, whenever responses arrive and
\* timers fire.
C11_RedirectTransparency ==
  (/\ Len(hops) > 1
   /\ \A i, j \in DOMAIN hops : i # j => hops[i].url # hops[j].url
   /\ hops[Len(hops)].st # "redirected"
   /\ hops[1].outcome.kind # "pending"
   /\ hops[Len(hops)].outcome.kind # "pending")
    => hops[1].outcome = hops[Len(hops)].outcome

\* C12: an invocation whose response has a status other than 200 and is not
\* a followed redirect (a 301/302 without Location header included) has its
\* promise rejected with "Failed to download file: HTTP <status>"; it has
\* accumulated no body and produced no DownloadResult.
C12_HttpStatusRejects ==
  \A k \in DOMAIN hops :
    (hops[k].status \notin {0, 200} /\ hops[k].st # "redirected")
      => /\ hops[k].outcome.kind = "rejected"
         /\ hops[k].outcome.error =
              "Failed to download file: HTTP " \o ToString(hops[k].status)
         /\ hops[k].chunks = <<>>
         /\ hops[k].st \notin {"body", "ended"}

C12_Witness ==
  /\ Len(hops) = 1 /\ hops[1].status = 301 /\ hops[1].st = "failed"
  /\ hops[1].outcome.kind = "rejected"
  /\ hops[1].outcome.error = "Failed to download file: HTTP 301"

C14_FilenameEndsInTcx ==
  \A k \in DOMAIN hops :
    hops[k].outcome.kind = "resolved"
      => \E stem \in Stems \cup {"msg-1", "msg-2", "msg-3", "lap.fit"} :
           hops[k].outcome.filename = stem \o ".tcx"

C16_RunOnceCallOrder ==
  (/\ done.fn = "runOnce" /\ done.alone
   /\ done.fault.call \in {"none", "stop"})
    => done.log =
         <<"start", "check">>
           \o [k \in 1..Len(done.msgs) |-> "process:" \o done.msgs[k].id]
           \o <<"stop", "disconnect">>

C16_Witness ==
  /\ done.fn = "runOnce" /\ done.alone /\ done.result = OK
  /\ done.msgs = <<Msg1, Msg2>>
  /\ done.log = <<"start", "check", "process:msg-1", "process:msg-2",
                  "stop", "disconnect">>
  /\ ~isRunning

\* C17: runOnce() rejects with the error of the call that failed: when
\* Monitor.start() fails, nothing but start() was called (no check, no
\* stop); when checkForNewEmails() fails, no processWorkoutEmail was called;
\* when a processWorkoutEmail fails, runOnce() rejects with its error.
C17_RunOnceErrorsPropagate ==
  (done.fn = "runOnce" /\ done.fault.call \in {"start", "check", "process"})
    => /\ done.result = done.fault.error /\ done.result # OK
       /\ done.fault.call = "start"
            => done.fault.error \in ConnectErrors /\ done.log = <<"start">>
       /\ done.fault.call = "check"
            => /\ done.fault.error \in GetMessagesErrors \cup {NotRunningError}
               /\ done.log = <<"start", "check">>
       /\ done.fault.call = "process"
            => /\ done.log[Len(done.log)] = "process:" \o done.msgs[done.i].id
               /\ \A k \in DOMAIN done.log : done.log[k] # "stop"

C17_Witness ==
  /\ done.fn = "runOnce" /\ done.msgs = <<Msg1, Msg2>>
  /\ done.fault = [call |-> "process", error |-> HttpError(404)]
  /\ done.result = HttpError(404)
  /\ done.log = <<"start", "check", "process:msg-1">>

C19_FailedPassKeepsCadence ==
  [][(done'.fn = "firing" /\ done'.fault.call \in {"check", "process"})
       => /\ done'.result = OK
          /\ cronJob' = cronJob /\ triggers' = triggers
          /\ isRunning' = isRunning]_vars

C19_Witness ==
  /\ done.fn = "firing"
  /\ done.fault = [call |-> "process", error |-> HttpError(404)]
  /\ done.result = OK
  /\ isRunning /\ SchedulerIsRunning(cronJob) /\ triggers = 1
  /\ ENABLED CronFires

\* C20: Scheduler.stop() cancels the trigger handle exactly if it holds one,
\* calls Monitor.stop() (and so provider.disconnect()) exactly if the Monitor
\* is running, and throws nothing; a stop() that follows a stop() cancels
\* nothing and calls neither Monitor.stop() nor provider.disconnect().
C20_SchedulerStopSafe ==
  [][done'.fn = "stop"
       => /\ done'.result = OK
          /\ done'.log =
               (IF SchedulerIsRunning(cronJob) THEN <<"cancel">> ELSE <<>>)
                 \o (IF isRunning THEN <<"stop", "disconnect">> ELSE <<>>)
          /\ done.fn = "stop" => done'.log = <<>>]_vars

\* Loop n is under way: a pass of it is in flight or its timer is armed.
LoopStarted(n) ==
  \/ \E a \in DOMAIN act : act[a].fn = "checkEmails" /\ act[a].loop = n
  \/ \E t \in timers : t.loop = n

\* A pass of loop n of parity r has begun: it is in flight or has just ended.
PassBegun(n, r) ==
  \/ \E a \in DOMAIN act :
       act[a].fn = "checkEmails" /\ act[a].loop = n /\ act[a].round = r
  \/ done.fn = "checkEmails" /\ done.loop = n /\ done.round = r

\* C21: in continuous mode, the step in which startContinuousMonitoring()
\* gets past a successful Monitor.start() also starts the first pass; every
\* step in which a pass ends, normally or with an error that was swallowed,
\* arms one timer of intervalMinutes * 60 * 1000 ms for the next pass of the
\* loop; and, every pass terminating, passes of both parities begin again
\* and again, so that passes recur for ever.
C21_ContinuousPassesRecur ==
  /\ [][/\ (done'.fn = "startContinuous" /\ done'.result = OK)
            => (/\ isRunning'
                /\ \E b \in DOMAIN act' :
                     /\ act'[b].fn = "checkEmails" /\ act'[b].round = 0
                     /\ act'[b].loop = done'.loop
                     /\ act'[b].at = "getMessages"
                     /\ act'[b].log = <<"check">>)
        /\ (done'.fn = "checkEmails")
            => (LET t == [loop |-> done'.loop, round |-> 1 - done'.round,
                          delay |-> IntervalMinutes * 60 * 1000]
                IN /\ done'.result = OK
                   /\ t \notin timers /\ t \in timers'
                   /\ Cardinality(timers' \ timers) = 1)]_vars
  /\ \A n \in Loops : \A r \in 0..1 : LoopStarted(n) ~> PassBegun(n, r)

C21_Witness ==
  /\ done.fn = "checkEmails" /\ done.round = 1
  /\ done.fault = [call |-> "check", error |-> "Service error"]
  /\ timers = {[loop |-> 1, round |-> 0, delay |-> 300000]}

\* C22: a SIGINT or SIGTERM delivered at any point after main() has begun,
\* the time during which the mode's start call is awaited included, makes
\* the process call Scheduler.stop() and then exit with status 0.
C22_SignalStopsThenExitsZero ==
  proc.signal # "none"
    => (proc.pc = "exited" /\ proc.stops = 1 /\ proc.exit = 0)

\* C23: a run of main() calls at most one entry point of the Scheduler, the
\* one MODE selects (unset or 'scheduled': startScheduledMonitoring;
\* 'continuous': startContinuousMonitoring; 'once': runOnce), and exactly
\* that one once the configuration is accepted; after a runOnce that
\* succeeded the process exits with 0; after a startup error, an unknown
\* mode or an error of the entry point it exits with 1.
C23_OneEntryPointByMode ==
  proc.pc # "none"
    => LET accepted == /\ ~Falsy(proc.env.EMAIL_ADDRESS)
                       /\ proc.env.EMAIL_PROVIDER = "gmail"
           chosen ==
             CASE proc.env.MODE \in {Undefined, "", "scheduled"}
                    -> <<"startScheduledMonitoring">>
               [] proc.env.MODE = "continuous"
                    -> <<"startContinuousMonitoring">>
               [] proc.env.MODE = "once" -> <<"runOnce">>
               [] OTHER -> <<>>
       IN /\ proc.entries = IF accepted THEN chosen ELSE <<>>
          /\ (proc.entries = <<"runOnce">> /\ proc.outcome = OK)
               => (proc.pc = "exited" /\ proc.exit = 0)
          /\ (\/ ~accepted
              \/ chosen = <<>>
              \/ proc.outcome \notin {"none", "pending", OK})
               => (proc.pc = "exited" /\ proc.exit = 1)

C23_Witness ==
  /\ proc.env.MODE = "once" /\ proc.entries = <<"runOnce">>
  /\ proc.outcome = OK /\ proc.pc = "exited" /\ proc.exit = 0

\* C24: getMessages called on a provider object on which connect() was never
\* called fails with the provider's not-initialized error and issues no
\* backend query, for the mail-API (Gmail) and for the IMAP (Outlook)
\* variant alike.
C24_GetMessagesBeforeConnect ==
  prov.connects = 0
    => /\ prov.queries = 0
       /\ prov.answer \in
            {"none",
             IF prov.kind = "gmail"
             THEN "Gmail service not initialized. Call connect() first."
             ELSE "IMAP not initialized"}

C24_Witness ==
  /\ prov.kind = "imap" /\ prov.creds /\ prov.connects = 0
  /\ prov.answer = "IMAP not initialized" /\ prov.queries = 0

\* The recurring passes in flight: cron callbacks and checkEmails calls.
Passes(as) == {a \in DOMAIN as : as[a].fn \in {"firing", "checkEmails"}}

\* C25: a Scheduler.stop() called while a pass is in flight does not
\* disconnect the provider in that call: provider.disconnect() waits until
\* the pass has completed.
C25_StopWaitsForPass ==
  [][(done'.fn = "stop" /\ Passes(act) # {})
       => \A k \in DOMAIN done'.log : done'.log[k] # "disconnect"]_vars

\* C26: in the step that follows a Scheduler.stop() that returned, unless
\* that step is a new call of an entry point or the return of one, no new
\* pass begins (a pass in flight may go on and complete), no timer is armed
\* and no trigger is scheduled.
C26_NothingStartsAfterStop ==
  [][(/\ done.fn = "stop" /\ done.result = OK
      /\ loops' = loops
      /\ done'.fn \notin {"startScheduled", "startContinuous", "runOnce"})
       => /\ timers' \subseteq timers
          /\ triggers' <= triggers
          /\ Cardinality(Passes(act')) <= Cardinality(Passes(act))
          /\ done'.fn \in {"firing", "checkEmails"}
               => Cardinality(Passes(act')) < Cardinality(Passes(act))]_vars

\* C27: processWorkoutEmail calls provider.downloadWorkoutFile only while
\* the Monitor is Running: a recurring pass never gets to await a download
\* that was called while the Monitor was Stopped.
C27_NoDownloadWhileStopped ==
  [][\A b \in Passes(act') :
       (/\ act'[b].at = "download"
        /\ \A a \in DOMAIN act :
             [act[a] EXCEPT !.alone = FALSE]
               # [act'[b] EXCEPT !.alone = FALSE])
       => isRunning]_vars

\* C28: in continuous mode each call of startContinuousMonitoring() has at
\* most one pass in flight, and the timer of its next pass is armed only
\* when no pass of it is in flight.
C28_OnePassPerLoop ==
  \A n \in Loops :
    Cardinality({a \in DOMAIN act :
                   act[a].fn = "checkEmails" /\ act[a].loop = n})
      + Cardinality({t \in timers : t.loop = n}) <= 1

C28_Witness ==
  /\ timers = {}
  /\ \E a \in DOMAIN act :
       /\ act[a].fn = "checkEmails" /\ act[a].loop = 1 /\ act[a].round = 1
       /\ act[a].at = "download"

\* C29: in periodic mode no two passes are in flight at the same time, even
\* when a pass lasts longer than the interval.
C29_PeriodicPassesDoNotOverlap ==
  Cardinality({a \in DOMAIN act : act[a].fn = "firing"}) <= 1

\* C30: a periodic or continuous pass whose check returned a list calls
\* processWorkoutEmail exactly once for every message of the list, in list
\* order, whether or not one of these calls failed.
C30_EveryMessageProcessed ==
  (done.fn \in {"firing", "checkEmails"} /\ done.fault.call # "check")
    => done.log =
         <<"check">>
           \o [k \in 1..Len(done.msgs) |-> "process:" \o done.msgs[k].id]

C35_OneConnectInFlight ==
  Cardinality({t \in Tasks : pc[t] = "start:connect"}) <= 1

\* C36: at most one cron task is scheduled at any time, and none is left
\* scheduled when Scheduler.stop() has returned, whatever the sequence of
\* startScheduledMonitoring() and stop() calls.
C36_OneTriggerNoneAfterStop ==
  /\ triggers <= 1
  /\ done.fn = "stop" => triggers = 0

C38_TimeoutLeavesNoRequest ==
  (/\ Len(hops) > 0
   /\ hops[1].outcome = Rejected(TimeoutError(fcall.timeout)))
    => \A k \in DOMAIN hops :
         hops[k].st \in {"sent", "body"} => hops[k].destroyed

\* C39: a getMessages that follows a failed connect() fails with the
\* not-initialized error and issues no backend query.
C39_FailedConnectNotConnected ==
  [][(/\ prov.pc = "idle"
      /\ prov.connected \notin {"none", "pending", OK}
      /\ prov'.connects = prov.connects /\ prov'.ended = prov.ended
      /\ prov' # prov)
       => /\ prov'.queries = prov.queries
          /\ prov'.answer = NotInitializedError(prov.kind)]_vars

\* C33: sender-domain matching does not depend on letter case: an address A
\* matches the configured domain D exactly when lower-cased A contains
\* lower-cased D, in the Monitor's isTechnogymEmail and in the listener's
\* isFromTechnogym alike.
C33_MatchIgnoresCase ==
  note.checked =>
    LET expected == Includes(ToLowerCase(note.from), ToLowerCase(note.domain))
    IN /\ note.matched = expected
       /\ IsTechnogymEmail(note.from, note.domain) = expected

\* C34: a notification whose processing met an error (payload, configuration,
\* history listing or message lookup) is never acknowledged: once
\* handleGmailNotification has settled, it has rejected.
C34_FailedNotificationRejects ==
  (note.failed # "none" /\ note.outcome # "pending")
    => note.outcome = "rejected"

====
